---- MODULE Spec2Model ----
(***************************************************************************)
(* A model of weather_app: the persisted store (User, City, SearchHistory  *)
(* rows), the search ledger (UserService), the request validators          *)
(* (serializers) and the API views, taken from src/weather/weather_app.    *)
(*                                                                         *)
(* The specifications share the variables:                                 *)
(*   SpecLedger  sequential calls of UserService (as the unit tests make)  *)
(*   SpecConc    concurrent save_search calls, one database statement per  *)
(*               step (no transaction.atomic surrounds save_search)        *)
(*   Spec        the API views, one request per step                       *)
(*   SpecSearch  the city search endpoint alone, over the full query set   *)
(*   SpecWeather the weather endpoint alone, over every request body       *)
(***************************************************************************)
EXTENDS Integers, Sequences, FiniteSets, TLC

VARIABLES
    users,      \* User rows: the set of session keys (session_key is unique)
    cities,     \* City rows: records [id, name, country, admin1, latitude, longitude]
    history,    \* SearchHistory rows: [id, user, city, search_count, last_searched, created_at]
    now,        \* the clock read by timezone.now / datetime.now
    last,       \* the last call handled: its inputs, outbound calls and result
    calls,      \* save_search calls made so far, per (session key, city attributes)
    pc,         \* SpecConc: each process's position in save_search
    loc         \* SpecConc: each process's local variables

vars == <<users, cities, history, now, last, calls, pc, loc>>

-----------------------------------------------------------------------------
(* Bounds of the model *)

\* the clock stops the model after this many SearchHistory writes
MaxTime == 2
\* number of concurrent save_search callers in SpecConc
NumProcs == 2
\* longest query, in runs of equal characters
MaxRuns == 2
\* longest geocoding response, in results
MaxResults == 1

-----------------------------------------------------------------------------
(* The data the calls are made with *)

Sessions == {"s1", "s2"}

\* city_data dictionaries: three (name, country, latitude, longitude) tuples,
\* two of which share name and country, each with two spellings of admin1
CityTuples ==
    { <<"London", "UK", 51, 0>>, <<"London", "CA", 42, -81>>, <<"London", "CA", 43, -81>> }

CityData ==
    { [name |-> t[1], country |-> t[2], latitude |-> t[3], longitude |-> t[4], admin1 |-> r] :
        t \in CityTuples, r \in {"", "Region"} }

CityKey(a) == <<a.name, a.country, a.latitude, a.longitude>>

Max(S) == CHOOSE x \in S : \A y \in S : y <= x

\* the AutoField primary key of the next inserted row
NextId(rows) == IF rows = {} THEN 1 ELSE Max({r.id : r \in rows}) + 1

-----------------------------------------------------------------------------
(* The store: models.py *)

\* City.Meta.unique_together: the database refuses a second row with the tuple
CityInsertNoConstraint(cs, row) == [ok |-> TRUE, rows |-> cs \cup {row}]

CityInsert(cs, row) ==
    IF \E c \in cs : CityKey(c) = CityKey(row)
    THEN [ok |-> FALSE, rows |-> cs]
    ELSE [ok |-> TRUE, rows |-> cs \cup {row}]

\* SearchHistory.Meta.unique_together: one row per (user, city)
HistoryInsert(hs, row) ==
    IF \E h \in hs : h.user = row.user /\ h.city = row.city
    THEN [ok |-> FALSE, rows |-> hs]
    ELSE [ok |-> TRUE, rows |-> hs \cup {row}]

\* City.objects.get(name=, country=, latitude=, longitude=): the matching rows
CityGet(cs, a) == {c \in cs : CityKey(c) = CityKey(a)}

\* SearchHistory.objects.get(user=, city=): the matching rows
HistoryGet(hs, u, cid) == {h \in hs : h.user = u /\ h.city = cid}

\* the row City.objects.create builds: admin1 from defaults
NewCity(cs, a) ==
    [id |-> NextId(cs), name |-> a.name, country |-> a.country,
     admin1 |-> a.admin1, latitude |-> a.latitude, longitude |-> a.longitude]

\* the row SearchHistory.objects.create builds: search_count from defaults,
\* last_searched and created_at from the field defaults (timezone.now)
NewHistory(hs, u, cid, t) ==
    [id |-> NextId(hs), user |-> u, city |-> cid, search_count |-> 1,
     last_searched |-> t, created_at |-> t]

\* search_history.search_count += 1; last_searched = datetime.now()
BumpedStale(h, t) == [h EXCEPT !.last_searched = t]

Bumped(h, t) == [h EXCEPT !.search_count = h.search_count + 1, !.last_searched = t]

\* search_history.save(): UPDATE of the row with the object's primary key
HistorySave(hs, obj) == {h \in hs : h.id # obj.id} \cup {obj}

-----------------------------------------------------------------------------
(* UserService: services.py *)

\* get_or_create_user: User.objects.get_or_create(session_key=...)
get_user_only(us, sk) == us

get_or_create_user(us, sk) == us \cup {sk}

\* save_search run alone, from its first statement to its return.
\* Result: the store after it and the SearchHistory object it returns
\* (status "error" when a get finds several rows: MultipleObjectsReturned).
save_search(cs, hs, u, a, t) ==
    LET found == CityGet(cs, a)
        cins  == CityInsert(cs, NewCity(cs, a))
        cs2   == IF found = {} THEN cins.rows ELSE cs
        cset  == CityGet(cs2, a)
    IN  IF Cardinality(cset) # 1
        THEN [status |-> "error", cities |-> cs2, history |-> hs]
        ELSE
          LET city  == CHOOSE c \in cset : TRUE
              hset  == HistoryGet(hs, u, city.id)
              fresh == NewHistory(hs, u, city.id, t)
          IN  IF hset = {}
              THEN [status |-> "ok", cities |-> cs2,
                    history |-> HistoryInsert(hs, fresh).rows, ret |-> fresh]
              ELSE IF Cardinality(hset) # 1
              THEN [status |-> "error", cities |-> cs2, history |-> hs]
              ELSE
                LET obj == Bumped(CHOOSE h \in hset : TRUE, t)
                IN  [status |-> "ok", cities |-> cs2,
                     history |-> HistorySave(hs, obj), ret |-> obj]

Idle == [op |-> "none"]

Procs == 1..NumProcs

NoLoc == [user |-> "s1", data |-> CHOOSE a \in CityData : TRUE]

\* SpecLedger: the service called directly, one call after another
InitLedger ==
    /\ users = {}
    /\ cities = {}
    /\ history = {}
    /\ now = 0
    /\ last = Idle
    /\ calls = [k \in Sessions \X CityData |-> 0]
    /\ pc = [p \in Procs |-> "off"]
    /\ loc = [p \in Procs |-> NoLoc]

CreateUser(sk) ==
    /\ users' = get_or_create_user(users, sk)
    /\ last' = [op |-> "get_or_create_user", user |-> sk]
    /\ UNCHANGED <<cities, history, now, calls, pc, loc>>

RecordSearch(u, a) ==
    /\ u \in users
    /\ now < MaxTime
    /\ LET r == save_search(cities, history, u, a, now + 1)
       IN  /\ cities' = r.cities
           /\ history' = r.history
           /\ last' = [op |-> "save_search", user |-> u, data |-> a, status |-> r.status,
                       ret |-> IF r.status = "ok" THEN r.ret ELSE NewHistory({}, u, 0, 0)]
    /\ now' = now + 1
    /\ calls' = [calls EXCEPT ![<<u, a>>] = @ + 1]
    /\ UNCHANGED <<users, pc, loc>>

NextLedger ==
    \/ \E sk \in Sessions : CreateUser(sk)
    \/ \E u \in Sessions, a \in CityData : RecordSearch(u, a)

SpecLedger == InitLedger /\ [][NextLedger]_vars

-----------------------------------------------------------------------------
(* SpecConc: save_search called by concurrent requests.  save_search opens *)
(* no transaction, so each ORM call is its own database statement and the   *)
(* callers interleave between them.  get_or_create is Django's: get; on     *)
(* DoesNotExist create; on IntegrityError get again.                        *)

\* the city_data the concurrent callers use
ConcData == {a \in CityData : a.admin1 = "" /\ a.latitude # 43}

NoObj == NewHistory({}, "s1", 0, 0)

\* the store before the concurrent calls: empty, or holding what one earlier
\* save_search("s1", London/UK) left
InitConc ==
    /\ users = Sessions
    /\ now \in {0, 1}
    /\ LET a0 == CHOOSE a \in ConcData : a.country = "UK"
           r  == save_search({}, {}, "s1", a0, 1)
       IN  /\ cities = IF now = 0 THEN {} ELSE r.cities
           /\ history = IF now = 0 THEN {} ELSE r.history
           /\ calls = [k \in Sessions \X CityData |->
                         IF now = 1 /\ k = <<"s1", a0>> THEN 1 ELSE 0]
    /\ last = Idle
    /\ pc = [p \in Procs |-> "idle"]
    /\ loc = [p \in Procs |-> [user |-> "s1", data |-> CHOOSE a \in ConcData : TRUE,
                               city |-> 0, obj |-> NoObj, raced |-> FALSE]]

Goto(p, label) == pc' = [pc EXCEPT ![p] = label]

\* a request enters save_search(user, city_data)
Call(p, u, a) ==
    /\ pc[p] = "idle"
    /\ Goto(p, "city_get")
    /\ loc' = [loc EXCEPT ![p] = [user |-> u, data |-> a, city |-> 0, obj |-> NoObj,
                                  raced |-> FALSE]]
    /\ calls' = [calls EXCEPT ![<<u, a>>] = @ + 1]
    /\ UNCHANGED <<users, cities, history, now, last>>

\* City.objects.get_or_create: the first get
CityGetStep(p) ==
    /\ pc[p] = "city_get"
    /\ LET found == CityGet(cities, loc[p].data)
       IN  \/ /\ found = {}
              /\ Goto(p, "city_create")
              /\ UNCHANGED loc
           \/ /\ Cardinality(found) = 1
              /\ Goto(p, "sh_get")
              /\ loc' = [loc EXCEPT ![p].city = (CHOOSE c \in found : TRUE).id]
           \/ /\ Cardinality(found) > 1
              /\ Goto(p, "failed")
              /\ UNCHANGED loc
    /\ UNCHANGED <<users, cities, history, now, last, calls>>

\* City.objects.get_or_create: the create after DoesNotExist
CityCreateStep(p) ==
    /\ pc[p] = "city_create"
    /\ LET row == NewCity(cities, loc[p].data)
           r   == CityInsert(cities, row)
       IN  \/ /\ r.ok
              /\ cities' = r.rows
              /\ Goto(p, "sh_get")
              /\ loc' = [loc EXCEPT ![p].city = row.id]
           \/ /\ ~r.ok
              /\ Goto(p, "city_retry")
              /\ loc' = [loc EXCEPT ![p].raced = TRUE]
              /\ UNCHANGED cities
    /\ UNCHANGED <<users, history, now, last, calls>>

\* City.objects.get_or_create: the get after IntegrityError
CityRetryStep(p) ==
    /\ pc[p] = "city_retry"
    /\ LET found == CityGet(cities, loc[p].data)
       IN  \/ /\ Cardinality(found) = 1
              /\ Goto(p, "sh_get")
              /\ loc' = [loc EXCEPT ![p].city = (CHOOSE c \in found : TRUE).id]
           \/ /\ Cardinality(found) # 1
              /\ Goto(p, "failed")
              /\ UNCHANGED loc
    /\ UNCHANGED <<users, cities, history, now, last, calls>>

\* SearchHistory.objects.get_or_create: the first get
ShGetStep(p) ==
    /\ pc[p] = "sh_get"
    /\ LET found == HistoryGet(history, loc[p].user, loc[p].city)
       IN  \/ /\ found = {}
              /\ Goto(p, "sh_create")
              /\ UNCHANGED loc
           \/ /\ Cardinality(found) = 1
              /\ Goto(p, "sh_save")
              /\ loc' = [loc EXCEPT ![p].obj = CHOOSE h \in found : TRUE]
           \/ /\ Cardinality(found) > 1
              /\ Goto(p, "failed")
              /\ UNCHANGED loc
    /\ UNCHANGED <<users, cities, history, now, last, calls>>

\* SearchHistory.objects.get_or_create: the create; created = True returns
ShCreateStep(p) ==
    /\ pc[p] = "sh_create"
    /\ LET row == NewHistory(history, loc[p].user, loc[p].city, now + 1)
           r   == HistoryInsert(history, row)
       IN  \/ /\ r.ok
              /\ history' = r.rows
              /\ now' = now + 1
              /\ Goto(p, "done")
              /\ loc' = [loc EXCEPT ![p].obj = row]
           \/ /\ ~r.ok
              /\ Goto(p, "sh_retry")
              /\ loc' = [loc EXCEPT ![p].raced = TRUE]
              /\ UNCHANGED <<history, now>>
    /\ UNCHANGED <<users, cities, last, calls>>

\* SearchHistory.objects.get_or_create: the get after IntegrityError
ShRetryStep(p) ==
    /\ pc[p] = "sh_retry"
    /\ LET found == HistoryGet(history, loc[p].user, loc[p].city)
       IN  \/ /\ Cardinality(found) = 1
              /\ Goto(p, "sh_save")
              /\ loc' = [loc EXCEPT ![p].obj = CHOOSE h \in found : TRUE]
           \/ /\ Cardinality(found) # 1
              /\ Goto(p, "failed")
              /\ UNCHANGED loc
    /\ UNCHANGED <<users, cities, history, now, last, calls>>

\* not created: search_count += 1 on the object read earlier, then save()
ShSaveStep(p) ==
    /\ pc[p] = "sh_save"
    /\ LET obj == Bumped(loc[p].obj, now + 1)
       IN  /\ history' = HistorySave(history, obj)
           /\ loc' = [loc EXCEPT ![p].obj = obj]
    /\ now' = now + 1
    /\ Goto(p, "done")
    /\ UNCHANGED <<users, cities, last, calls>>

NextConc ==
    \/ \E p \in Procs, u \in Sessions, a \in ConcData : Call(p, u, a)
    \/ \E p \in Procs : CityGetStep(p)
    \/ \E p \in Procs : CityCreateStep(p)
    \/ \E p \in Procs : CityRetryStep(p)
    \/ \E p \in Procs : ShGetStep(p)
    \/ \E p \in Procs : ShCreateStep(p)
    \/ \E p \in Procs : ShRetryStep(p)
    \/ \E p \in Procs : ShSaveStep(p)

SpecConc == InitConc /\ [][NextConc]_vars

-----------------------------------------------------------------------------
(* Request validation: serializers.py *)

\* CitySearchSerializer.query: CharField(max_length=200)
MaxQueryLen == 200
\* validate_query: fewer characters than this are refused
MinQueryLen == 2

\* A query is a string of blanks and letters, written as its runs of equal
\* characters: <<[ch |-> " ", n |-> 1], [ch |-> "a", n |-> 200]>> is a blank
\* followed by 200 letters.  Neighbouring runs differ in their character.
RunLens == {1, 2, MaxQueryLen, MaxQueryLen + 1}
Run == [ch : {" ", "a"}, n : RunLens]

WellFormed(q) == \A i \in 1..(Len(q) - 1) : q[i].ch # q[i + 1].ch

Queries == UNION { {q \in [1..k -> Run] : WellFormed(q)} : k \in 0..MaxRuns }

RECURSIVE StrLen(_)
StrLen(q) == IF q = <<>> THEN 0 ELSE Head(q).n + StrLen(Tail(q))

\* str.strip(): the leading and the trailing blanks removed
LStrip(q) == IF q # <<>> /\ Head(q).ch = " " THEN Tail(q) ELSE q
RStrip(q) == IF q # <<>> /\ q[Len(q)].ch = " " THEN SubSeq(q, 1, Len(q) - 1) ELSE q
Strip(q) == RStrip(LStrip(q))

\* CitySearchSerializer.validate_query
validate_query_strict(value) ==
    IF StrLen(Strip(value)) <= MinQueryLen
    THEN [ok |-> FALSE, value |-> value]
    ELSE [ok |-> TRUE, value |-> Strip(value)]

validate_query(value) ==
    IF StrLen(Strip(value)) < MinQueryLen
    THEN [ok |-> FALSE, value |-> value]
    ELSE [ok |-> TRUE, value |-> Strip(value)]

\* CitySearchSerializer(data).is_valid(): the CharField trims the text
\* (trim_whitespace), refuses a blank one and one longer than max_length,
\* then validate_query runs on it
CitySearchSerializer(q) ==
    LET v == Strip(q)
    IN  IF StrLen(v) = 0 \/ StrLen(v) > MaxQueryLen
        THEN [ok |-> FALSE, value |-> v]
        ELSE validate_query(v)

\* an optional request field
Absent == [has |-> FALSE, val |-> 0]
Some(v) == [has |-> TRUE, val |-> v]
Opt(S) == {Absent} \cup {Some(v) : v \in S}

\* Python truth of data.get(key): None and 0 are false
Truthy(o) == o.has /\ o.val # 0
Provided(o) == o.has

\* WeatherRequestSerializer.validate
validate_by_presence(data) ==
    ~(~Provided(data.city_id) /\ ~(Provided(data.latitude) /\ Provided(data.longitude)))

validate(data) ==
    ~(~Truthy(data.city_id) /\ ~(Truthy(data.latitude) /\ Truthy(data.longitude)))

-----------------------------------------------------------------------------
(* WeatherService: services.py *)

\* the geocoding provider's answers: the call fails (RequestException), or
\* returns a body without "results", or one with a list of results
GeoResults == {a \in CityData : a.admin1 = "" /\ a.latitude # 42}

ResultLists == UNION { [1..k -> GeoResults] : k \in 0..MaxResults }

GeoAnswers ==
    {[ok |-> FALSE, has_results |-> FALSE, results |-> <<>>],
     [ok |-> TRUE, has_results |-> FALSE, results |-> <<>>]}
    \cup {[ok |-> TRUE, has_results |-> TRUE, results |-> rs] : rs \in ResultLists}

\* search_cities: one requests.get; the results copied into city_data
\* dictionaries; nothing is written to the database
search_cities_saving(cs, query, answer) ==
    LET row == NewCity(cs, answer.results[1])
    IN  [ok |-> answer.ok, geo |-> 1,
         cities |-> IF answer.ok /\ answer.has_results THEN answer.results ELSE <<>>,
         store |-> IF answer.ok /\ answer.has_results /\ answer.results # <<>>
                   THEN CityInsert(cs, row).rows ELSE cs]

search_cities(cs, query, answer) ==
    [ok |-> answer.ok, geo |-> 1,
     cities |-> IF answer.ok /\ answer.has_results THEN answer.results ELSE <<>>,
     store |-> cs]

\* get_weather_data: one requests.get, no retry; failure raises
get_weather_data_retrying(latitude, longitude, up) ==
    [ok |-> up, fc |-> IF up THEN 1 ELSE 2]

get_weather_data(latitude, longitude, up) == [ok |-> up, fc |-> 1]

-----------------------------------------------------------------------------
(* The API views: views.py *)

\* CitySearchView.post
CitySearchView_post(cs, q, answer) ==
    LET ser == CitySearchSerializer(q)
        r   == search_cities(cs, ser.value, answer)
    IN  IF ~ser.ok
        THEN [status |-> 400, geo |-> 0, sent |-> <<>>, cities |-> <<>>, count |-> 0,
              store |-> cs]
        ELSE IF ~r.ok
        THEN [status |-> 500, geo |-> r.geo, sent |-> ser.value, cities |-> <<>>,
              count |-> 0, store |-> r.store]
        ELSE [status |-> 200, geo |-> r.geo, sent |-> ser.value, cities |-> r.cities,
              count |-> Len(r.cities), store |-> r.store]

\* the city_data WeatherView.post builds from the City row
CityDataOf(c) ==
    [name |-> c.name, country |-> c.country, admin1 |-> c.admin1,
     latitude |-> c.latitude, longitude |-> c.longitude]

\* WeatherView.post after validation, for the user of session key sk.
\* Result: status, forecast calls made, save_search calls made, the store.
WeatherView_post_valid(us, cs, hs, sk, data, up, t) ==
    LET us2   == get_or_create_user(us, sk)
        found == {c \in cs : c.id = data.city_id.val}
        city  == CHOOSE c \in found : TRUE
        byId  == Truthy(data.city_id)
        w     == IF byId
                 THEN get_weather_data(city.latitude, city.longitude, up)
                 ELSE get_weather_data(data.latitude.val, data.longitude.val, up)
        s     == save_search(cs, hs, sk, CityDataOf(city), t)
    IN  IF byId /\ found = {}
        THEN [status |-> 404, fc |-> 0, saved |-> 0, users |-> us2, cities |-> cs,
              history |-> hs]
        ELSE IF ~w.ok
        THEN [status |-> 500, fc |-> w.fc, saved |-> 0, users |-> us2, cities |-> cs,
              history |-> hs]
        ELSE IF ~byId
        THEN [status |-> 200, fc |-> w.fc, saved |-> 0, users |-> us2, cities |-> cs,
              history |-> hs]
        ELSE [status |-> IF s.status = "ok" THEN 200 ELSE 500, fc |-> w.fc, saved |-> 1,
              users |-> us2, cities |-> s.cities, history |-> s.history]

\* WeatherView.post
WeatherView_post(us, cs, hs, sk, data, up, t) ==
    IF ~validate(data)
    THEN [status |-> 400, fc |-> 0, saved |-> 0, users |-> us, cities |-> cs,
          history |-> hs]
    ELSE WeatherView_post_valid(us, cs, hs, sk, data, up, t)

\* the rows a view returns
HistoryLimit == 10
RecentLimit == 5
PopularLimit == 10

\* request.session.session_key of a request without a session
NoSession == "none"

Take(seq, n) == SubSeq(seq, 1, IF Len(seq) < n THEN Len(seq) ELSE n)

\* order_by('-key'): the rows of S in an order of non-increasing key (rows
\* of equal key come in any order): a row of the greatest key, then the
\* others in such an order
RECURSIVE Orderings(_, _)
Orderings(S, key) ==
    IF S = {} THEN {<<>>}
    ELSE UNION { {<<m>> \o t : t \in Orderings(S \ {m}, key)} :
                    m \in {x \in S : \A y \in S : x[key] >= y[key]} }

RECURSIVE SumCount(_)
SumCount(hs) ==
    IF hs = {} THEN 0
    ELSE LET h == CHOOSE x \in hs : TRUE IN h.search_count + SumCount(hs \ {h})

\* CitySerializer: the City fields and display_name
CitySerializer(c) ==
    [id |-> c.id, name |-> c.name, country |-> c.country, admin1 |-> c.admin1,
     latitude |-> c.latitude, longitude |-> c.longitude,
     display_name |-> IF c.admin1 # "" THEN <<c.name, c.admin1, c.country>>
                      ELSE <<c.name, c.country>>]

\* SearchHistorySerializer
SearchHistorySerializer(cs, h) ==
    [id |-> h.id, city |-> CitySerializer(CHOOSE c \in cs : c.id = h.city),
     search_count |-> h.search_count, last_searched |-> h.last_searched,
     created_at |-> h.created_at]

\* SearchHistoryView.get: the responses the view can give
SearchHistoryView_get_everyone(us, cs, hs, sk) ==
    IF sk = NoSession \/ sk \notin us THEN {<<>>}
    ELSE { [i \in 1..Len(Take(o, HistoryLimit)) |-> SearchHistorySerializer(cs, o[i])] :
             o \in Orderings(hs, "last_searched") }

SearchHistoryView_get(us, cs, hs, sk) ==
    IF sk = NoSession \/ sk \notin us THEN {<<>>}
    ELSE { [i \in 1..Len(Take(o, HistoryLimit)) |-> SearchHistorySerializer(cs, o[i])] :
             o \in Orderings({h \in hs : h.user = sk}, "last_searched") }

\* RecentSearchesView.get
RecentSearchesView_get(us, cs, hs, sk) ==
    IF sk = NoSession \/ sk \notin us THEN {<<>>}
    ELSE { [i \in 1..Len(Take(o, RecentLimit)) |->
              LET c == CHOOSE x \in cs : x.id = o[i].city
              IN  [city_id |-> c.id, display_name |-> <<c.name, c.country>>,
                   last_searched |-> o[i].last_searched]] :
             o \in Orderings({h \in hs : h.user = sk}, "last_searched") }

\* PopularCitiesView.get: values(city__name, city__country, city__id) with
\* Sum(search_count) and Count(user, distinct), by -total_searches, first 10
PopularRows(cs, hs) ==
    { [city__name |-> c.name, city__country |-> c.country, city__id |-> c.id,
       total_searches |-> SumCount({h \in hs : h.city = c.id}),
       unique_users |-> Cardinality({h.user : h \in {x \in hs : x.city = c.id}})] :
        c \in {x \in cs : \E h \in hs : h.city = x.id} }

PopularCitiesView_get_all(cs, hs) == Orderings(PopularRows(cs, hs), "total_searches")

PopularCitiesView_get(cs, hs) ==
    { Take(o, PopularLimit) : o \in Orderings(PopularRows(cs, hs), "total_searches") }

\* StatsView.get: values(city__name, city__country) with the same sums, all
\* rows, and the three totals
StatRows(cs, hs) ==
    LET CitiesOf(n, k) == {c.id : c \in {x \in cs : x.name = n /\ x.country = k}}
        RowsOf(n, k) == {h \in hs : h.city \in CitiesOf(n, k)}
    IN  { [city__name |-> g[1], city__country |-> g[2],
           search_count |-> SumCount(RowsOf(g[1], g[2])),
           unique_users |-> Cardinality({h.user : h \in RowsOf(g[1], g[2])})] :
            g \in {<<c.name, c.country>> : c \in {x \in cs : \E h \in hs : h.city = x.id}} }

StatsView_get_rowcount(us, cs, hs) ==
    { [city_stats |-> o, total_searches |-> Cardinality(hs),
       total_users |-> Cardinality(us), total_cities |-> Cardinality(cs)] :
        o \in Orderings(StatRows(cs, hs), "search_count") }

StatsView_get(us, cs, hs) ==
    { [city_stats |-> o, total_searches |-> SumCount(hs),
       total_users |-> Cardinality(us), total_cities |-> Cardinality(cs)] :
        o \in Orderings(StatRows(cs, hs), "search_count") }

\* the City rows the API starts with (the fixture of the view tests):
\* no view creates a City row
SeedCities ==
    { [id |-> 1, name |-> "London", country |-> "UK", admin1 |-> "Region",
       latitude |-> 51, longitude |-> 0],
      [id |-> 2, name |-> "London", country |-> "CA", admin1 |-> "",
       latitude |-> 42, longitude |-> -81] }

\* the request bodies of the weather endpoint
CityIdInputs == {0, 1, 2, 9}
LatInputs == {0, 51}
LonInputs == {0, 2}

WeatherRequests ==
    [city_id : Opt(CityIdInputs), latitude : Opt(LatInputs), longitude : Opt(LonInputs)]

InitApi ==
    /\ users = {}
    /\ cities = SeedCities
    /\ history = {}
    /\ now = 0
    /\ last = Idle
    /\ calls = [k \in Sessions \X CityData |-> 0]
    /\ pc = [p \in Procs |-> "off"]
    /\ loc = [p \in Procs |-> NoLoc]

\* POST api/search-cities/
SearchCities(q, answer) ==
    /\ LET r == CitySearchView_post(cities, q, answer)
       IN  /\ last' = [op |-> "search_cities", query |-> q, answer |-> answer,
                       status |-> r.status, geo |-> r.geo, fc |-> 0, sent |-> r.sent,
                       cities |-> r.cities, count |-> r.count]
           /\ cities' = r.store
    /\ UNCHANGED <<users, history, now, calls, pc, loc>>

\* POST api/weather/ by the session with key sk (the key the cookie carries,
\* or the one request.session.create() makes)
GetWeather(sk, data, up) ==
    /\ LET r == WeatherView_post(users, cities, history, sk, data, up, now + 1)
       IN  /\ r.saved = 1 => now < MaxTime
           /\ users' = r.users
           /\ cities' = r.cities
           /\ history' = r.history
           /\ now' = now + r.saved
           /\ last' = [op |-> "weather", sess |-> sk, data |-> data,
                       upfail |-> (r.fc > 0 /\ ~up),
                       status |-> r.status, geo |-> 0, fc |-> r.fc, saved |-> r.saved]
           /\ calls' = IF r.saved = 1
                       THEN LET c == CHOOSE x \in cities : x.id = data.city_id.val
                            IN  [calls EXCEPT ![<<sk, CityDataOf(c)>>] = @ + 1]
                       ELSE calls
    /\ UNCHANGED <<pc, loc>>

\* GET api/history/
GetHistory(sk) ==
    /\ \E rows \in SearchHistoryView_get(users, cities, history, sk) :
          last' = [op |-> "history", sess |-> sk, status |-> 200, geo |-> 0, fc |-> 0,
                   rows |-> rows]
    /\ UNCHANGED <<users, cities, history, now, calls, pc, loc>>

\* GET api/recent/
GetRecent(sk) ==
    /\ \E rows \in RecentSearchesView_get(users, cities, history, sk) :
          last' = [op |-> "recent", sess |-> sk, status |-> 200, geo |-> 0, fc |-> 0,
                   rows |-> rows]
    /\ UNCHANGED <<users, cities, history, now, calls, pc, loc>>

\* GET api/popular/
GetPopular ==
    /\ \E rows \in PopularCitiesView_get(cities, history) :
          last' = [op |-> "popular", status |-> 200, geo |-> 0, fc |-> 0, rows |-> rows]
    /\ UNCHANGED <<users, cities, history, now, calls, pc, loc>>

\* GET api/stats/
GetStats ==
    /\ \E body \in StatsView_get(users, cities, history) :
          last' = [op |-> "stats", status |-> 200, geo |-> 0, fc |-> 0, body |-> body]
    /\ UNCHANGED <<users, cities, history, now, calls, pc, loc>>

\* the queries, provider answers and weather requests the API specification
\* draws from: short queries, answers of at most one result, and the bodies
\* a client builds from a search result (a city id, or both coordinates)
ApiQueries == {q \in Queries : Len(q) <= 1 /\ StrLen(q) <= MinQueryLen}
ApiAnswers == {a \in GeoAnswers : Len(a.results) <= 1}
ApiRequests ==
    {d \in WeatherRequests :
        /\ d.city_id # Some(0)
        /\ \/ d.latitude = Absent /\ d.longitude = Absent
           \/ d.latitude = Some(51) /\ d.longitude = Some(2)}

Next ==
    \/ \E q \in ApiQueries, answer \in ApiAnswers : SearchCities(q, answer)
    \/ \E sk \in Sessions, data \in ApiRequests, up \in BOOLEAN : GetWeather(sk, data, up)
    \/ \E sk \in Sessions \cup {NoSession} : GetHistory(sk)
    \/ \E sk \in Sessions \cup {NoSession} : GetRecent(sk)
    \/ GetPopular
    \/ GetStats

Spec == InitApi /\ [][Next]_vars

\* SpecSearch: the search endpoint alone, over every query and answer, on
\* the empty database of the service tests
InitSearch ==
    /\ users = {}
    /\ cities = {}
    /\ history = {}
    /\ now = 0
    /\ last = Idle
    /\ calls = [k \in Sessions \X CityData |-> 0]
    /\ pc = [p \in Procs |-> "off"]
    /\ loc = [p \in Procs |-> NoLoc]

NextSearch == \E q \in Queries, answer \in GeoAnswers : SearchCities(q, answer)

SpecSearch == InitSearch /\ [][NextSearch]_vars

\* SpecWeather: the weather endpoint alone, over every request body
NextWeather == \E data \in WeatherRequests, up \in BOOLEAN : GetWeather("s1", data, up)

SpecWeather == InitApi /\ [][NextWeather]_vars

-----------------------------------------------------------------------------
(* Properties of the search ledger *)

RECURSIVE SumCalls(_, _)
SumCalls(u, S) ==
    IF S = {} THEN 0
    ELSE LET a == CHOOSE x \in S : TRUE IN calls[<<u, a>>] + SumCalls(u, S \ {a})

\* save_search calls made by session u for the city tuple k
TotalCalls(u, k) == SumCalls(u, {a \in CityData : CityKey(a) = k})

CityOfId(cid) == CHOOSE c \in cities : c.id = cid

\* C1: after n >= 1 sequential save_search calls by a session for one city
\* tuple, from a store without matching rows, there is exactly one City row
\* for the tuple and exactly one SearchHistory row for (session, that city),
\* with search_count = n; the k-th call returns an entry with search_count k.
C1_SequentialCount ==
    /\ \A u \in Sessions, k \in CityTuples :
          TotalCalls(u, k) >= 1 =>
            /\ Cardinality({c \in cities : CityKey(c) = k}) = 1
            /\ LET c  == CHOOSE x \in cities : CityKey(x) = k
                   hs == HistoryGet(history, u, c.id)
               IN  /\ Cardinality(hs) = 1
                   /\ \A h \in hs : h.search_count = TotalCalls(u, k)
    /\ last.op = "save_search" =>
          /\ last.status = "ok"
          /\ last.ret \in history
          /\ last.ret.search_count = TotalCalls(last.user, CityKey(last.data))

\* two identical calls were made and the second returned search_count 2
C1_Witness ==
    /\ last.op = "save_search"
    /\ calls[<<last.user, last.data>>] = 2
    /\ TotalCalls(last.user, CityKey(last.data)) = 2
    /\ last.ret.search_count = 2
    /\ Cardinality(CityGet(cities, last.data)) = 1

\* C2: under every interleaving of concurrent save_search calls there is at
\* most one City row per (name, country, latitude, longitude) and at most one
\* SearchHistory row per (user, city); no call fails on the insert race, and
\* a call that returned holds the one row of its (user, city) pair.
C2_UniqueUnderRaces ==
    /\ \A c1, c2 \in cities : CityKey(c1) = CityKey(c2) => c1 = c2
    /\ \A h1, h2 \in history : (h1.user = h2.user /\ h1.city = h2.city) => h1 = h2
    /\ \A p \in Procs : pc[p] # "failed"
    /\ \A p \in Procs : pc[p] = "done" =>
          \E h \in history :
             /\ h.id = loc[p].obj.id
             /\ h.user = loc[p].user
             /\ h.city = loc[p].city
             /\ CityKey(CityOfId(h.city)) = CityKey(loc[p].data)

\* two identical concurrent calls have returned, one of them after losing
\* the insert race, and they hold the same row
C2_Witness ==
    \E p, q \in Procs :
       /\ p # q
       /\ pc[p] = "done" /\ pc[q] = "done"
       /\ loc[p].user = loc[q].user /\ loc[p].data = loc[q].data
       /\ loc[q].raced
       /\ loc[p].obj.id = loc[q].obj.id

AllDone == \A p \in Procs : pc[p] = "done"

\* C3: once all concurrent save_search calls have returned, every entry's
\* search_count equals the number of calls made for its (session, city).
C3_NoLostIncrement ==
    AllDone =>
       \A h \in history :
          h.search_count = TotalCalls(h.user, CityKey(CityOfId(h.city)))

-----------------------------------------------------------------------------
(* Properties of the API *)

HasCity(cid) == \E c \in cities : c.id = cid

StoreUnchanged == cities' = cities /\ history' = history

\* C4: every SearchHistory row references a City row and a User row that
\* exist, and has search_count >= 1.
C4_ReferentialIntegrity ==
    \A h \in history :
       /\ h.user \in users
       /\ HasCity(h.city)
       /\ h.search_count >= 1

\* two sessions hold entries, for different cities
C4_Witness ==
    \E h1, h2 \in history : h1.user # h2.user /\ h1.city # h2.city

\* C5: a weather request naming a city id for which no City row exists
\* returns 404, makes no forecast call and changes no City or SearchHistory
\* row.
C5_UnknownCityNotFound ==
    [][ (last'.op = "weather" /\ last'.data.city_id.has
           /\ ~HasCity(last'.data.city_id.val))
        => (last'.status = 404 /\ last'.fc = 0 /\ StoreUnchanged) ]_vars

\* C6: when the outbound geocoding or forecast call fails, the request
\* reports a failure (500), exactly one outbound call was made (no retry),
\* and no City or SearchHistory row is created or changed; no request makes
\* more than one outbound call.
UpstreamFailed(l) ==
    \/ l.op = "weather" /\ l.upfail
    \/ l.op = "search_cities" /\ l.geo > 0 /\ ~l.answer.ok

C6_UpstreamFailureNoWrites ==
    [][ /\ last'.op \in {"weather", "search_cities"} => last'.geo + last'.fc <= 1
        /\ UpstreamFailed(last') =>
             (last'.status = 500 /\ last'.geo + last'.fc = 1 /\ StoreUnchanged) ]_vars

\* the forecast call failed for a request naming an existing city whose
\* session already holds an entry
C6_Witness ==
    /\ last.op = "weather"
    /\ last.upfail
    /\ last.status = 500
    /\ HasCity(last.data.city_id.val)
    /\ \E h \in history : h.user = last.sess /\ h.city = last.data.city_id.val

TrimmedLen(q) == StrLen(Strip(q))

\* C7 as claimed: a query shorter than 2 characters after trimming is refused
\* (400) before any geocoding call and without a change of the store; every
\* query of at least 2 characters after trimming goes to the geocoding call,
\* trimmed.
C7_EveryLongQueryProceeds ==
    [][ last'.op = "search_cities" =>
          /\ TrimmedLen(last'.query) < MinQueryLen =>
               (last'.status = 400 /\ last'.geo = 0 /\ StoreUnchanged /\ users' = users)
          /\ TrimmedLen(last'.query) >= MinQueryLen =>
               (last'.geo = 1 /\ last'.sent = Strip(last'.query)) ]_vars

\* C7 as amended: a query of fewer than 2 or more than 200 characters after
\* trimming is refused (400) before any geocoding call and without a change
\* of the store; every query of 2 to 200 characters after trimming goes to
\* the geocoding call, trimmed.
C7_QueryLengthGate ==
    [][ last'.op = "search_cities" =>
          /\ (TrimmedLen(last'.query) < MinQueryLen \/ TrimmedLen(last'.query) > MaxQueryLen) =>
               (last'.status = 400 /\ last'.geo = 0 /\ StoreUnchanged /\ users' = users)
          /\ (TrimmedLen(last'.query) >= MinQueryLen /\ TrimmedLen(last'.query) <= MaxQueryLen) =>
               (last'.geo = 1 /\ last'.sent = Strip(last'.query)) ]_vars

\* a query of 2 letters padded with blanks went to the provider trimmed
C7_Witness ==
    /\ last.op = "search_cities"
    /\ TrimmedLen(last.query) = MinQueryLen
    /\ StrLen(last.query) > MinQueryLen
    /\ last.geo = 1
    /\ last.sent = Strip(last.query)

\* C8: a weather request is refused (400) exactly when it supplies neither a
\* city id nor both a latitude and a longitude, whatever the values supplied
\* (0 included); a refused request creates no User row and makes no outbound
\* call.
C8_RejectedIffNothingSupplied ==
    [][ last'.op = "weather" =>
          /\ (last'.status = 400) <=> ~validate_by_presence(last'.data)
          /\ last'.status = 400 => (users' = users /\ last'.fc = 0 /\ last'.geo = 0) ]_vars

\* the request recorded exactly one search for (u, cid): the pair's entry is
\* new with search_count 1 or has its search_count raised by 1, and every
\* other entry is as before
RecordedOne(u, cid) ==
    LET old == HistoryGet(history, u, cid)
        new == HistoryGet(history', u, cid)
    IN  /\ Cardinality(new) = 1
        /\ history' \ new = history \ old
        /\ \A n \in new :
              IF old = {} THEN n.search_count = 1
              ELSE \A o \in old : n.search_count = o.search_count + 1

ByCityOk(l) ==
    /\ l.op = "weather"
    /\ Truthy(l.data.city_id)
    /\ HasCity(l.data.city_id.val)
    /\ l.fc = 1
    /\ ~l.upfail

C10_SearchSavesCities ==
    (last.op = "search_cities" /\ last.status = 200 /\ last.count >= 1) =>
       \A i \in 1..Len(last.cities) :
          \E c \in cities :
             c.name = last.cities[i].name /\ c.country = last.cities[i].country

-----------------------------------------------------------------------------
(* The number of cities a search returns *)

\* params['count'] of search_cities: the number of results asked of the
\* provider
SearchCount == 10

\* how far past a limit the inputs go
MaxExtra == 1

\* answers of the provider with as many results as asked for, and with more
LongAnswers ==
    {[ok |-> TRUE, has_results |-> TRUE, results |-> [i \in 1..n |-> g]] :
        n \in SearchCount..(SearchCount + MaxExtra), g \in GeoResults}

GeoQueries == {q \in Queries : StrLen(q) <= MaxQueryLen}

\* SpecGeo: the search endpoint on the empty database, over the queries the
\* length check lets pass or refuses and every answer, the long ones included
NextGeo == \E q \in GeoQueries, answer \in GeoAnswers \cup LongAnswers : SearchCities(q, answer)

SpecGeo == InitSearch /\ [][NextGeo]_vars

\* C11: a search returns at most 10 cities whatever the provider answers,
\* each with name, country, region and coordinates; count is the number of
\* cities returned; an answer without results gives an empty list, count 0.
C11_AtMostTenCities ==
    (last.op = "search_cities" /\ last.status = 200) =>
       /\ Len(last.cities) <= SearchCount
       /\ last.count = Len(last.cities)
       /\ \A i \in 1..Len(last.cities) :
             {"name", "country", "admin1", "latitude", "longitude"}
                \subseteq DOMAIN last.cities[i]
       /\ (~last.answer.has_results \/ last.answer.results = <<>>) =>
             (last.cities = <<>> /\ last.count = 0)

-----------------------------------------------------------------------------
(* The forecast normaliser: services.py *)

\* weather_codes of _get_weather_description
WeatherCodes ==
    (0 :> "Clear sky") @@ (1 :> "Mainly clear") @@ (2 :> "Partly cloudy")
    @@ (3 :> "Overcast") @@ (45 :> "Fog") @@ (48 :> "Depositing rime fog")
    @@ (51 :> "Light drizzle") @@ (53 :> "Moderate drizzle") @@ (55 :> "Dense drizzle")
    @@ (56 :> "Light freezing drizzle") @@ (57 :> "Dense freezing drizzle")
    @@ (61 :> "Slight rain") @@ (63 :> "Moderate rain") @@ (65 :> "Heavy rain")
    @@ (66 :> "Light freezing rain") @@ (67 :> "Heavy freezing rain")
    @@ (71 :> "Slight snow fall") @@ (73 :> "Moderate snow fall")
    @@ (75 :> "Heavy snow fall") @@ (77 :> "Snow grains")
    @@ (80 :> "Slight rain showers") @@ (81 :> "Moderate rain showers")
    @@ (82 :> "Violent rain showers") @@ (85 :> "Slight snow showers")
    @@ (86 :> "Heavy snow showers") @@ (95 :> "Thunderstorm")
    @@ (96 :> "Thunderstorm with slight hail") @@ (99 :> "Thunderstorm with heavy hail")

\* _get_weather_description: weather_codes.get(code, "Unknown"); code is an
\* optional value, None being Absent
get_weather_description_rainless(code) ==
    IF Provided(code) /\ code.val \in DOMAIN WeatherCodes \ {61}
    THEN WeatherCodes[code.val] ELSE "Unknown"

get_weather_description(code) ==
    IF Provided(code) /\ code.val \in DOMAIN WeatherCodes
    THEN WeatherCodes[code.val] ELSE "Unknown"

\* a JSON object is a function of the keys it has; {} is the empty one
EmptyDict == <<>>

\* dict.get(k): the value, or None
DictGet(d, k) == IF k \in DOMAIN d THEN Some(d[k]) ELSE Absent

\* dict.get(k, {}) and dict.get(k, [])
DictGetOr(d, k, default) == IF k \in DOMAIN d THEN d[k] ELSE default

\* d[k][i] if i < len(d.get(k, [])) else None, for the i-th element (from 1)
ItemWrapped(d, k, i) ==
    LET xs == DictGetOr(d, k, <<>>)
    IN  IF xs # <<>> THEN Some(xs[((i - 1) % Len(xs)) + 1]) ELSE Absent

Item(d, k, i) == IF i <= Len(DictGetOr(d, k, <<>>)) THEN Some(d[k][i]) ELSE Absent

min(a, b) == IF a < b THEN a ELSE b

\* the number of hours of the hourly forecast
HourlyCap == 24

current_weather(current) ==
    [temperature |-> DictGet(current, "temperature_2m"),
     feels_like |-> DictGet(current, "apparent_temperature"),
     humidity |-> DictGet(current, "relative_humidity_2m"),
     precipitation |-> DictGet(current, "precipitation"),
     weather_code |-> DictGet(current, "weather_code"),
     weather_description |-> get_weather_description(DictGet(current, "weather_code")),
     cloud_cover |-> DictGet(current, "cloud_cover"),
     pressure |-> DictGet(current, "pressure_msl"),
     wind_speed |-> DictGet(current, "wind_speed_10m"),
     wind_direction |-> DictGet(current, "wind_direction_10m"),
     is_day |-> DictGet(current, "is_day"),
     time |-> DictGet(current, "time")]

hourly_entry(hourly, i) ==
    [time |-> hourly["time"][i],
     temperature |-> Item(hourly, "temperature_2m", i),
     humidity |-> Item(hourly, "relative_humidity_2m", i),
     precipitation_probability |-> Item(hourly, "precipitation_probability", i),
     precipitation |-> Item(hourly, "precipitation", i),
     weather_code |-> Item(hourly, "weather_code", i),
     weather_description |-> get_weather_description(Item(hourly, "weather_code", i)),
     wind_speed |-> Item(hourly, "wind_speed_10m", i)]

hourly_forecast_uncapped(hourly) ==
    IF DictGetOr(hourly, "time", <<>>) # <<>>
    THEN [i \in 1..Len(hourly["time"]) |-> hourly_entry(hourly, i)]
    ELSE <<>>

hourly_forecast(hourly) ==
    IF DictGetOr(hourly, "time", <<>>) # <<>>
    THEN [i \in 1..min(HourlyCap, Len(hourly["time"])) |-> hourly_entry(hourly, i)]
    ELSE <<>>

daily_entry(daily, i) ==
    [date |-> daily["time"][i],
     temperature_max |-> Item(daily, "temperature_2m_max", i),
     temperature_min |-> Item(daily, "temperature_2m_min", i),
     feels_like_max |-> Item(daily, "apparent_temperature_max", i),
     feels_like_min |-> Item(daily, "apparent_temperature_min", i),
     precipitation |-> Item(daily, "precipitation_sum", i),
     wind_speed_max |-> Item(daily, "wind_speed_10m_max", i),
     wind_direction |-> Item(daily, "wind_direction_10m_dominant", i),
     weather_code |-> Item(daily, "weather_code", i),
     weather_description |-> get_weather_description(Item(daily, "weather_code", i))]

daily_forecast(daily) ==
    IF DictGetOr(daily, "time", <<>>) # <<>>
    THEN [i \in 1..Len(daily["time"]) |-> daily_entry(daily, i)]
    ELSE <<>>

\* _format_weather_data
format_weather_data(raw_data) ==
    [current_weather |-> current_weather(DictGetOr(raw_data, "current", EmptyDict)),
     hourly_forecast |-> hourly_forecast(DictGetOr(raw_data, "hourly", EmptyDict)),
     daily_forecast |-> daily_forecast(DictGetOr(raw_data, "daily", EmptyDict)),
     timezone |-> DictGet(raw_data, "timezone"),
     elevation |-> DictGet(raw_data, "elevation")]

\* the keys of the provider's forecast response (get_weather_data asks for
\* these variables)
CurrentKeys ==
    <<"temperature_2m", "apparent_temperature", "relative_humidity_2m", "precipitation",
      "weather_code", "cloud_cover", "pressure_msl", "wind_speed_10m",
      "wind_direction_10m", "is_day", "time">>

HourlyKeys ==
    <<"temperature_2m", "relative_humidity_2m", "precipitation_probability",
      "precipitation", "weather_code", "wind_speed_10m">>

DailyKeys ==
    <<"temperature_2m_max", "temperature_2m_min", "apparent_temperature_max",
      "apparent_temperature_min", "precipitation_sum", "wind_speed_10m_max",
      "wind_direction_10m_dominant", "weather_code">>

Range(keys) == {keys[j] : j \in 1..Len(keys)}
IndexOf(keys, k) == CHOOSE j \in 1..Len(keys) : keys[j] = k

\* the value of variable number j at hour or day i
Reading(j, i) == 100 * j + i

\* a current block without the keys of missing, with the given weather code
CurrentBlock(missing, code) ==
    [k \in Range(CurrentKeys) \ missing |->
        IF k = "weather_code" THEN code ELSE Reading(IndexOf(CurrentKeys, k), 0)]

\* an hourly or daily block: nt time entries and as many of every variable,
\* but m of variable number short; a negative length leaves the key out;
\* the weather codes count up from code
ArrayBlock(keys, nt, short, m, code) ==
    LET Length(j) == IF j = short THEN m ELSE nt
        present == {keys[j] : j \in {x \in 1..Len(keys) : Length(x) >= 0}}
                     \cup (IF nt >= 0 THEN {"time"} ELSE {})
    IN  [k \in present |->
           IF k = "time" THEN [i \in 1..nt |-> 1000 + i]
           ELSE [i \in 1..Length(IndexOf(keys, k)) |->
                   IF k = "weather_code" THEN code + i - 1
                   ELSE Reading(IndexOf(keys, k), i)]]

TopKeys == {"current", "hourly", "daily", "timezone", "elevation"}

RawData(present, current, hourly, daily) ==
    LET full == [current |-> current, hourly |-> hourly, daily |-> daily,
                 timezone |-> 1, elevation |-> 35]
    IN  [k \in present |-> full[k]]

\* the weather codes and array lengths of the inputs
MaxCode == 100
CodeInputs == (-1..MaxCode) \cup {999}
TimeLens == {-1, 0, 1, 2} \cup HourlyCap..(HourlyCap + MaxExtra)

RawInputs ==
    {RawData(TopKeys, CurrentBlock({}, c), ArrayBlock(HourlyKeys, 1, 0, 0, c),
             ArrayBlock(DailyKeys, 1, 0, 0, c)) : c \in CodeInputs}
    \cup {RawData(TopKeys, CurrentBlock({}, 0), ArrayBlock(HourlyKeys, nt, short, m, 0),
                  ArrayBlock(DailyKeys, nt, 0, 0, 0)) :
            nt \in TimeLens, short \in 1..Len(HourlyKeys), m \in TimeLens}
    \cup {RawData(TopKeys, CurrentBlock({}, 0), ArrayBlock(HourlyKeys, nt, 0, 0, 0),
                  ArrayBlock(DailyKeys, nt, short, m, 0)) :
            nt \in TimeLens, short \in 1..Len(DailyKeys), m \in TimeLens}
    \cup {RawData(TopKeys, CurrentBlock(missing, 0), ArrayBlock(HourlyKeys, 1, 0, 0, 0),
                  ArrayBlock(DailyKeys, 1, 0, 0, 0)) :
            missing \in {{}, Range(CurrentKeys)} \cup {{k} : k \in Range(CurrentKeys)}}
    \cup {RawData(present, CurrentBlock({}, 0), ArrayBlock(HourlyKeys, 1, 0, 0, 0),
                  ArrayBlock(DailyKeys, 1, 0, 0, 0)) : present \in SUBSET TopKeys}

\* SpecFormat: a response of the forecast provider arrives and is normalised
InitFormat ==
    /\ users = {}
    /\ cities = {}
    /\ history = {}
    /\ now = 0
    /\ last \in {[op |-> "raw", raw_data |-> r] : r \in RawInputs}
    /\ calls = [k \in Sessions \X CityData |-> 0]
    /\ pc = [p \in Procs |-> "off"]
    /\ loc = [p \in Procs |-> NoLoc]

FormatWeatherData ==
    /\ last.op = "raw"
    /\ last' = [op |-> "forecast", raw_data |-> last.raw_data,
                data |-> format_weather_data(last.raw_data)]
    /\ UNCHANGED <<users, cities, history, now, calls, pc, loc>>

NextFormat == FormatWeatherData

SpecFormat == InitFormat /\ [][NextFormat]_vars

\* the codes of the mapping, and the strings the documentation spells out
MappedCodes ==
    {0, 1, 2, 3, 45, 48, 51, 53, 55, 56, 57, 61, 63, 65, 66, 67, 71, 73, 75, 77,
     80, 81, 82, 85, 86, 95, 96, 99}

DescriptionOk(code, s) ==
    IF code.has /\ code.val \in MappedCodes
    THEN /\ s # "Unknown"
         /\ code.val = 0 => s = "Clear sky"
         /\ code.val = 1 => s = "Mainly clear"
         /\ code.val = 2 => s = "Partly cloudy"
         /\ code.val = 3 => s = "Overcast"
         /\ code.val = 61 => s = "Slight rain"
         /\ code.val = 77 => s = "Snow grains"
    ELSE s = "Unknown"

\* C12: a code of the mapping is described by its string (0 "Clear sky",
\* 1 "Mainly clear", 2 "Partly cloudy", 3 "Overcast", 61 "Slight rain",
\* 77 "Snow grains", the others by a string of their own), every other code
\* and a missing code by "Unknown", in the current, hourly and daily fields.
C12_CodeDescriptions ==
    last.op = "forecast" =>
       LET d == last.data
       IN  /\ DescriptionOk(d.current_weather.weather_code,
                            d.current_weather.weather_description)
           /\ \A i \in DOMAIN d.hourly_forecast :
                 DescriptionOk(d.hourly_forecast[i].weather_code,
                               d.hourly_forecast[i].weather_description)
           /\ \A i \in DOMAIN d.daily_forecast :
                 DescriptionOk(d.daily_forecast[i].weather_code,
                               d.daily_forecast[i].weather_description)

\* code 61 in all three places is described as slight rain
C12_Witness ==
    /\ last.op = "forecast"
    /\ last.data.current_weather.weather_code = Some(61)
    /\ last.data.current_weather.weather_description = "Slight rain"
    /\ Len(last.data.hourly_forecast) = 1
    /\ last.data.hourly_forecast[1].weather_code = Some(61)
    /\ last.data.hourly_forecast[1].weather_description = "Slight rain"
    /\ Len(last.data.daily_forecast) = 1
    /\ last.data.daily_forecast[1].weather_code = Some(61)
    /\ last.data.daily_forecast[1].weather_description = "Slight rain"

\* the time array of a block of the raw response; absent counts as empty
RawTimes(raw_data, block) ==
    IF block \in DOMAIN raw_data /\ "time" \in DOMAIN raw_data[block]
    THEN raw_data[block]["time"] ELSE <<>>

\* C13: the hourly forecast has min(24, number of hourly time entries)
\* elements, the daily forecast one element per daily time entry, element i
\* carrying the i-th time entry; no or an empty time array gives no element.
C13_ForecastLengths ==
    last.op = "forecast" =>
       LET ht == RawTimes(last.raw_data, "hourly")
           dt == RawTimes(last.raw_data, "daily")
           hf == last.data.hourly_forecast
           df == last.data.daily_forecast
       IN  /\ Len(hf) = (IF Len(ht) < HourlyCap THEN Len(ht) ELSE HourlyCap)
           /\ \A i \in 1..Len(hf) : hf[i].time = ht[i]
           /\ Len(df) = Len(dt)
           /\ \A i \in 1..Len(df) : df[i].date = dt[i]

\* more than 24 hours and more than 24 days were sent
C13_Witness ==
    /\ last.op = "forecast"
    /\ Len(RawTimes(last.raw_data, "hourly")) > HourlyCap
    /\ Len(RawTimes(last.raw_data, "daily")) > HourlyCap
    /\ Len(last.data.hourly_forecast) = HourlyCap
    /\ Len(last.data.daily_forecast) > HourlyCap

\* the output field of each variable of the response
CurrentFields ==
    {<<"temperature", "temperature_2m">>, <<"feels_like", "apparent_temperature">>,
     <<"humidity", "relative_humidity_2m">>, <<"precipitation", "precipitation">>,
     <<"weather_code", "weather_code">>, <<"cloud_cover", "cloud_cover">>,
     <<"pressure", "pressure_msl">>, <<"wind_speed", "wind_speed_10m">>,
     <<"wind_direction", "wind_direction_10m">>, <<"is_day", "is_day">>,
     <<"time", "time">>}

HourlyFields ==
    {<<"temperature", "temperature_2m">>, <<"humidity", "relative_humidity_2m">>,
     <<"precipitation_probability", "precipitation_probability">>,
     <<"precipitation", "precipitation">>, <<"weather_code", "weather_code">>,
     <<"wind_speed", "wind_speed_10m">>}

DailyFields ==
    {<<"temperature_max", "temperature_2m_max">>, <<"temperature_min", "temperature_2m_min">>,
     <<"feels_like_max", "apparent_temperature_max">>,
     <<"feels_like_min", "apparent_temperature_min">>,
     <<"precipitation", "precipitation_sum">>, <<"wind_speed_max", "wind_speed_10m_max">>,
     <<"wind_direction", "wind_direction_10m_dominant">>,
     <<"weather_code", "weather_code">>}

RawBlock(raw_data, block) ==
    IF block \in DOMAIN raw_data THEN raw_data[block] ELSE EmptyDict

\* element i of every field of a forecast is the i-th value of its
\* variable, null where the variable has no i-th value
ElementsOk(forecast, block, fields) ==
    \A i \in 1..Len(forecast) : \A f \in fields :
       forecast[i][f[1]] =
          IF f[2] \in DOMAIN block /\ i <= Len(block[f[2]])
          THEN [has |-> TRUE, val |-> block[f[2]][i]]
          ELSE [has |-> FALSE, val |-> 0]

\* C14: a field missing from the current block is null; an hourly or daily
\* variable gives its i-th value to element i where it has one and null
\* where its array is shorter than the time array or absent.
C14_MissingDataIsNull ==
    last.op = "forecast" =>
       LET current == RawBlock(last.raw_data, "current")
       IN  /\ \A f \in CurrentFields :
                 last.data.current_weather[f[1]] =
                    IF f[2] \in DOMAIN current
                    THEN [has |-> TRUE, val |-> current[f[2]]]
                    ELSE [has |-> FALSE, val |-> 0]
           /\ ElementsOk(last.data.hourly_forecast, RawBlock(last.raw_data, "hourly"),
                         HourlyFields)
           /\ ElementsOk(last.data.daily_forecast, RawBlock(last.raw_data, "daily"),
                         DailyFields)

\* two hours were sent with one temperature: the second hour has none
C14_Witness ==
    /\ last.op = "forecast"
    /\ Len(last.data.hourly_forecast) = 2
    /\ "temperature_2m" \in DOMAIN last.raw_data["hourly"]
    /\ Len(last.raw_data["hourly"]["temperature_2m"]) = 1
    /\ last.data.hourly_forecast[1].temperature.has
    /\ ~last.data.hourly_forecast[2].temperature.has
    /\ last.data.hourly_forecast[2].humidity.has

-----------------------------------------------------------------------------
(* The read views over the stores that recorded searches leave *)

\* city_data of town number i: towns of one name and country, told apart
\* by their coordinates
TownData(i) ==
    [name |-> "Springfield", country |-> "US", admin1 |-> "", latitude |-> i,
     longitude |-> 0]

\* the store after the calls of a sequence, made one after another at the
\* times i, i + 1, ... (a call that raises ends the sequence)
RECURSIVE Replay(_, _, _)
Replay(store, callseq, i) ==
    IF i > Len(callseq) THEN store
    ELSE LET r == save_search(store.cities, store.history, callseq[i][1],
                              callseq[i][2], i)
         IN  IF r.status # "ok" THEN store
             ELSE Replay([cities |-> r.cities, history |-> r.history], callseq, i + 1)

\* session s1 searches the towns i..n in turn, town j as many times as its
\* number (or, reversed, the more often the lower its number)
RECURSIVE Tour(_, _, _)
Tour(n, reversed, i) ==
    IF i > n THEN <<>>
    ELSE [j \in 1..(IF reversed THEN n + 1 - i ELSE i) |-> <<"s1", TownData(i)>>]
            \o Tour(n, reversed, i + 1)

\* the numbers of towns: up to and past the limits of the views
TourSizes ==
    RecentLimit..(RecentLimit + MaxExtra) \cup HistoryLimit..(HistoryLimit + MaxExtra)

\* tours, some followed by session s2 searching the town searched least
Tours ==
    {Tour(n, reversed, 1)
        \o (IF extra THEN <<<<"s2", TownData(IF reversed THEN n ELSE 1)>>>> ELSE <<>>) :
        n \in TourSizes, reversed \in BOOLEAN, extra \in BOOLEAN}

\* SpecQueries: the services called one after another and the read views,
\* starting from the empty database or from the store a tour leaves
InitQueries ==
    /\ \E callseq \in Tours \cup {<<>>} :
          LET store == Replay([cities |-> {}, history |-> {}], callseq, 1)
          IN  /\ users = {callseq[i][1] : i \in 1..Len(callseq)}
              /\ cities = store.cities
              /\ history = store.history
              /\ now = Len(callseq)
    /\ last = Idle
    /\ calls = [k \in Sessions \X CityData |-> 0]
    /\ pc = [p \in Procs |-> "off"]
    /\ loc = [p \in Procs |-> NoLoc]

NextQueries ==
    \/ \E sk \in Sessions : CreateUser(sk)
    \/ \E u \in Sessions, a \in CityData : RecordSearch(u, a)
    \/ \E sk \in Sessions \cup {NoSession} : GetHistory(sk)
    \/ \E sk \in Sessions \cup {NoSession} : GetRecent(sk)
    \/ GetPopular
    \/ GetStats

SpecQueries == InitQueries /\ [][NextQueries]_vars

\* the entries of a City row, their searches counted one by one, and their
\* sessions
EntriesOf(cid) == {h \in history : h.city = cid}
SearchesIn(hs) == Cardinality(UNION {{<<h.id, k>> : k \in 1..h.search_count} : h \in hs})
SessionsIn(hs) == Cardinality({h.user : h \in hs})
SearchedCities == {c \in cities : EntriesOf(c.id) # {}}

\* C15: the popular list has at most 10 rows, one per City row that has an
\* entry, each with the sum of its entries' counts and the number of their
\* sessions, in non-increasing order of the sum; no City row left out has a
\* larger sum than a row of the list.
C15_PopularTopTen ==
    last.op = "popular" =>
       LET rows == last.rows
           n == Cardinality(SearchedCities)
       IN  /\ Len(rows) = (IF n < PopularLimit THEN n ELSE PopularLimit)
           /\ \A i, j \in 1..Len(rows) : i < j => rows[i].city__id # rows[j].city__id
           /\ \A i \in 1..Len(rows) :
                 \E c \in SearchedCities :
                    /\ rows[i].city__id = c.id
                    /\ rows[i].city__name = c.name
                    /\ rows[i].city__country = c.country
                    /\ rows[i].total_searches = SearchesIn(EntriesOf(c.id))
                    /\ rows[i].unique_users = SessionsIn(EntriesOf(c.id))
           /\ \A i \in 1..(Len(rows) - 1) :
                 rows[i].total_searches >= rows[i + 1].total_searches
           /\ \A c \in SearchedCities :
                 (\A i \in 1..Len(rows) : rows[i].city__id # c.id) =>
                    \A i \in 1..Len(rows) :
                       SearchesIn(EntriesOf(c.id)) <= rows[i].total_searches

\* more than 10 towns were searched, one of them by two sessions
C15_Witness ==
    /\ last.op = "popular"
    /\ Cardinality(SearchedCities) > PopularLimit
    /\ Len(last.rows) = PopularLimit
    /\ \E i \in 1..Len(last.rows) : last.rows[i].unique_users = 2

\* C16: city_stats has one row for each City row that has an entry (two
\* City rows of one name and country at different coordinates have a row
\* each), with the sum of its entries' counts and the number of their
\* sessions.
C16_StatsRowPerCity ==
    last.op = "stats" =>
       LET rows == last.body.city_stats
       IN  /\ Len(rows) = Cardinality(SearchedCities)
           /\ \A c \in SearchedCities :
                 \E i \in 1..Len(rows) :
                    /\ rows[i].city__name = c.name
                    /\ rows[i].city__country = c.country
                    /\ rows[i].search_count = SearchesIn(EntriesOf(c.id))
                    /\ rows[i].unique_users = SessionsIn(EntriesOf(c.id))

RecentFirst(times, mine, limit) ==
    LET n == Cardinality(mine)
    IN  /\ Len(times) = (IF n < limit THEN n ELSE limit)
        /\ \A i \in 1..Len(times) : \E h \in mine : h.id = times[i][1] /\ h.last_searched = times[i][2]
        /\ \A i, j \in 1..Len(times) : i < j => times[i][1] # times[j][1]
        /\ \A i \in 1..(Len(times) - 1) : times[i][2] >= times[i + 1][2]
        /\ \A h \in mine :
              (\A i \in 1..Len(times) : times[i][1] # h.id) =>
                 \A i \in 1..Len(times) : h.last_searched <= times[i][2]

MineOf(sk) == IF sk \in users THEN {h \in history : h.user = sk} ELSE {}

\* C18: the history of a session shows only its entries, at most 10, the
\* most recently searched first and the 10 most recent kept; the recent
\* list shows the first 5 of that order; both are empty without a session
\* and for a session without a User row.
C18_HistoryRecentFirst ==
    /\ last.op = "history" =>
          /\ RecentFirst([i \in 1..Len(last.rows) |->
                            <<last.rows[i].id, last.rows[i].last_searched>>],
                         MineOf(last.sess), HistoryLimit)
          /\ \A i \in 1..Len(last.rows) :
                \E h \in MineOf(last.sess) :
                   /\ h.id = last.rows[i].id
                   /\ h.city = last.rows[i].city.id
                   /\ h.search_count = last.rows[i].search_count
    /\ last.op = "recent" =>
          RecentFirst([i \in 1..Len(last.rows) |->
                         <<(CHOOSE h \in history :
                               h.user = last.sess /\ h.city = last.rows[i].city_id).id,
                           last.rows[i].last_searched>>],
                      MineOf(last.sess), RecentLimit)
    /\ (last.op \in {"history", "recent"} /\ last.sess \notin users) => last.rows = <<>>

\* a session with more than 10 entries is shown its 10 most recent
C18_Witness ==
    /\ last.op = "history"
    /\ Cardinality(MineOf(last.sess)) > HistoryLimit
    /\ Len(last.rows) = HistoryLimit
    /\ \A h \in MineOf(last.sess) : h.last_searched <= last.rows[1].last_searched

-----------------------------------------------------------------------------
(* What a repeat search changes *)

\* the stored entry of the call that process p is making
StoredEntry(p) == CHOOSE h \in history : h.user = loc[p].user /\ h.city = loc[p].city

\* C19: a repeat search raises the stored entry's count by exactly 1 and
\* sets its last_searched to the current time, leaving its created_at, every
\* other entry and every City row as they are; no step deletes a City row
\* or an entry or lowers a count.
C19_RepeatSearchFrame ==
    [][ /\ \A p \in Procs :
             (pc[p] = "sh_save" /\ pc'[p] = "done") =>
                /\ history' = (history \ {StoredEntry(p)})
                      \cup {[StoredEntry(p) EXCEPT !.search_count = @ + 1,
                                                   !.last_searched = now']}
                /\ cities' = cities
        /\ cities \subseteq cities'
        /\ \A h \in history :
              \E g \in history' :
                 /\ g.id = h.id /\ g.user = h.user /\ g.city = h.city
                 /\ g.created_at = h.created_at
                 /\ g.search_count >= h.search_count ]_vars

====
